---- MODULE Spec2Model ----
(***************************************************************************)
(* Model of the status-normalisation core of infra-status-dashboard        *)
(* (src/lib/statusSources.ts): the text helpers, the two severity          *)
(* classifiers, the four fetchers (RSS, simple HTTP, Statuspage,           *)
(* Cybersource), the provider roster and the aggregator getAllStatuses.    *)
(*                                                                         *)
(* Four specifications share the module:                                   *)
(*   ClassifySpec  inferStatusFromText applied to bounded texts            *)
(*   FetchSpec     one provider call, over every modelled HTTP outcome     *)
(*   Spec          one aggregation pass (getAllStatuses) on the event loop *)
(*   FairSpec      Spec with the event loop's fairness                     *)
(* Strings are JavaScript strings; Len, \o and SubSeq act on them.         *)
(***************************************************************************)
EXTENDS Naturals, Integers, Sequences, FiniteSets, TLC

VARIABLES
    \* ClassifySpec: the words the input text is built from, the text, the result
    cwords, ctext, clevel,
    \* FetchSpec: the provider called, its position, the HTTP outcome, the promise, the clock
    fsrc, fpc, fresp, fout, fnow,
    \* Spec: getAllStatuses' position, providers invoked so far, HTTP outcome and GET
    \* count per provider, each provider's promise, the value getAllStatuses resolved to
    pc, started, resp, requests, results, returned, clock

cvars == <<cwords, ctext, clevel>>
fvars == <<fsrc, fpc, fresp, fout, fnow>>
pvars == <<pc, started, resp, requests, results, returned, clock>>
vars == <<cwords, ctext, clevel, fsrc, fpc, fresp, fout, fnow,
          pc, started, resp, requests, results, returned, clock>>

\* ------------------------------------------------------------------ bounds
\* Words per classifier input text.
MaxWords == 2
\* Entries in a JSON document's incident list.
MaxIncidents == 4
\* <item> blocks in a generated feed document.
MaxItems == 4
\* Largest clock reading.
MaxClock == 1
\* Providers whose request may fail within an aggregation pass (the first so many
\* of FailOrder); any number of them may fail in the same pass.
MaxFailing == 4

\* ------------------------------------------------------------- JS values
\* JavaScript's undefined and null, as they appear in optional fields and JSON.
Undefined == "<undefined>"
Null == "<null>"

Min(a, b) == IF a <= b THEN a ELSE b

\* ------------------------------------------------------------ StatusLevel
StatusLevel == {"operational", "degraded", "major_outage"}

\* ----------------------------------------------------------- text helpers
UpperToLower ==
    [A |-> "a", B |-> "b", C |-> "c", D |-> "d", E |-> "e", F |-> "f", G |-> "g",
     H |-> "h", I |-> "i", J |-> "j", K |-> "k", L |-> "l", M |-> "m", N |-> "n",
     O |-> "o", P |-> "p", Q |-> "q", R |-> "r", S |-> "s", T |-> "t", U |-> "u",
     V |-> "v", W |-> "w", X |-> "x", Y |-> "y", Z |-> "z"]

CharAt(s, i) == SubSeq(s, i, i)

LowerChar(c) == IF c \in DOMAIN UpperToLower THEN UpperToLower[c] ELSE c

\* The characters lo..hi of s in lower case (split in halves to bound the depth).
RECURSIVE LowerRange(_, _, _)
LowerRange(s, lo, hi) ==
    IF lo > hi THEN ""
    ELSE IF lo = hi THEN LowerChar(CharAt(s, lo))
    ELSE LET mid == (lo + hi) \div 2 IN LowerRange(s, lo, mid) \o LowerRange(s, mid + 1, hi)

\* String.prototype.toLowerCase
ToLowerCase(s) == LowerRange(s, 1, Len(s))

\* The pieces f[lo], ..., f[hi] joined.
RECURSIVE ConcatRange(_, _, _)
ConcatRange(f, lo, hi) ==
    IF lo > hi THEN ""
    ELSE IF lo = hi THEN f[lo]
    ELSE LET mid == (lo + hi) \div 2 IN ConcatRange(f, lo, mid) \o ConcatRange(f, mid + 1, hi)

SetMin(S) == CHOOSE x \in S : \A y \in S : x <= y
SetMax(S) == CHOOSE x \in S : \A y \in S : y <= x

\* The positions at which pat occurs in s.
Occurrences(s, pat) ==
    {i \in 1..(Len(s) - Len(pat) + 1) : SubSeq(s, i, i + Len(pat) - 1) = pat}

\* The first position >= from at which pat occurs in s, 0 when there is none.
IndexFrom(s, pat, from) ==
    LET hits == {i \in Occurrences(s, pat) : i >= from} IN
    IF hits = {} THEN 0 ELSE SetMin(hits)

\* String.prototype.includes
Includes(s, kw) ==
    \E i \in 1..(Len(s) - Len(kw) + 1) : SubSeq(s, i, i + Len(kw) - 1) = kw

RedKeywords ==
    {"major outage", "critical", "unavailable", "service disruption", "downtime", "outage"}

AmberKeywords ==
    {"partial", "degraded", "degradation", "incident", "maintenance", "investigating",
     "monitoring"}

GreenKeywords == {"resolved", "operational", "normal", "all systems"}

IncludesAny(s, kws) == \E kw \in kws : Includes(s, kw)

\* A mutant of inferStatusFromText: the amber tier is tested before the red tier.
inferStatusAmberFirst(text) ==
    LET lower == ToLowerCase(IF text = Undefined THEN "" ELSE text) IN
    IF lower = "" THEN "operational"
    ELSE IF IncludesAny(lower, AmberKeywords) THEN "degraded"
    ELSE IF IncludesAny(lower, RedKeywords) THEN "major_outage"
    ELSE "operational"

inferStatusFromText(text) ==
    LET lower == ToLowerCase(IF text = Undefined THEN "" ELSE text) IN
    IF lower = "" THEN "operational"
    ELSE IF IncludesAny(lower, RedKeywords) THEN "major_outage"
    ELSE IF IncludesAny(lower, AmberKeywords) THEN "degraded"
    ELSE IF IncludesAny(lower, GreenKeywords) THEN "operational"
    ELSE "operational"

\* The ellipsis character U+2026 truncate appends (one UTF-16 code unit).
Ellipsis == "~"

Whitespace == {" ", "\n", "\t"}

IsSpace(s, i) == CharAt(s, i) \in Whitespace

\* String.prototype.trimEnd
TrimEnd(s) ==
    LET keep == {i \in 1..Len(s) : ~IsSpace(s, i)} IN
    IF keep = {} THEN "" ELSE SubSeq(s, 1, CHOOSE i \in keep : \A j \in keep : j <= i)

\* String.prototype.trimStart
TrimStart(s) ==
    LET keep == {i \in 1..Len(s) : ~IsSpace(s, i)} IN
    IF keep = {} THEN "" ELSE SubSeq(s, CHOOSE i \in keep : \A j \in keep : i <= j, Len(s))

\* String.prototype.trim
Trim(s) == TrimStart(TrimEnd(s))

truncate(input, max) ==
    IF input = "" THEN ""
    ELSE IF Len(input) <= max THEN input
    ELSE TrimEnd(SubSeq(input, 1, max - 1)) \o Ellipsis

\* ------------------------------------------------- promises and try/catch
Pending == [state |-> "pending"]
Fulfilled(v) == [state |-> "fulfilled", value |-> v]
Rejected == [state |-> "rejected"]

\* What a try block evaluates to: a thrown error or the value it returns.
Threw == [threw |-> TRUE]
Returned(v) == [threw |-> FALSE, value |-> v]

\* A mutant of TryCatch: the error is logged and thrown again.
TryCatchRethrow(t, fallback) ==
    IF t.threw THEN Rejected ELSE Fulfilled(t.value)

\* An async function whose whole body is try { ... } catch { return fallback }:
\* its promise is fulfilled with the try block's value or with the fallback.
TryCatch(t, fallback) ==
    IF t.threw THEN Fulfilled(fallback) ELSE Fulfilled(t.value)

\* ------------------------------------------------------------- summaries
\* StatusSummary.latestItems: absent (undefined) or a list of StatusItem.
NoItems == [defined |-> FALSE, items |-> <<>>]
Items(list) == [defined |-> TRUE, items |-> list]

\* latestItems.length ? latestItems : undefined
ItemsOrUndefined(list) == IF Len(list) # 0 THEN Items(list) ELSE NoItems

StatusItem(title, date, link) == [title |-> title, date |-> date, link |-> link]

StatusSummary(id, name, status, detailUrl, lastUpdated, message, latestItems) ==
    [id |-> id, name |-> name, status |-> status, detailUrl |-> detailUrl,
     lastUpdated |-> lastUpdated, message |-> message, latestItems |-> latestItems]

\* a ?? b
Coalesce(a, b) == IF a \in {Undefined, Null} THEN b ELSE a

\* new Date().toISOString() at clock reading t
IsoString(t) == "2024-01-01T00:00:0" \o ToString(t) \o ".000Z"

\* ------------------------------------------------------- HTTP responses
\* fetch() rejects (transport failure) or resolves to a response with a status
\* and a body; res.ok is status in 200..299.
NoBody == [kind |-> "none"]
NetFail == [net |-> "error", status |-> 0, body |-> NoBody]
Response(status, body) == [net |-> "ok", status |-> status, body |-> body]
ResOk(r) == r.status \in 200..299

\* res.json(): throws on a failed read or on text that is not JSON
ResJson(body) == IF body.kind = "json" THEN Returned(body.data) ELSE Threw

\* res.text(): throws on a failed read
ResText(body) == IF body.kind = "text" THEN Returned(body.text) ELSE Threw

\* data?.status?.indicator, data?.status?.description, data?.page?.updated_at
DataIndicator(data) == IF data.t = "object" THEN data.indicator ELSE Undefined
DataDescription(data) == IF data.t = "object" THEN data.description ELSE Undefined
DataUpdatedAt(data) == IF data.t = "object" THEN data.updated_at ELSE Undefined

\* ------------------------------------------------- mapStatuspageIndicator
\* A mutant of mapStatuspageIndicator: an unknown indicator counts as operational.
mapStatuspageIndicatorOptimistic(indicator) ==
    CASE indicator = "none" -> "operational"
      [] indicator = "minor" -> "degraded"
      [] indicator \in {"major", "critical"} -> "major_outage"
      [] OTHER -> "operational"

mapStatuspageIndicator(indicator) ==
    CASE indicator = "none" -> "operational"
      [] indicator = "minor" -> "degraded"
      [] indicator \in {"major", "critical"} -> "major_outage"
      [] OTHER -> "degraded"

\* ---------------------------------------------------- getSimpleHttpStatus
\* A mutant of SimpleLevel: a 500 counts as a client error.
SimpleLevelStrict(r) ==
    IF ResOk(r) THEN "operational"
    ELSE IF r.status > 500 THEN "major_outage"
    ELSE "degraded"

SimpleLevel(r) ==
    IF ResOk(r) THEN "operational"
    ELSE IF r.status >= 500 THEN "major_outage"
    ELSE "degraded"

SimpleMessage(r) ==
    IF ResOk(r) THEN "Endpoint reachable (HTTP " \o ToString(r.status) \o ")"
    ELSE "Endpoint error (HTTP " \o ToString(r.status) \o ")"

SimpleTry(id, name, url, r, now) ==
    IF r.net = "error" THEN Threw
    ELSE Returned(StatusSummary(id, name, SimpleLevel(r), url, IsoString(now),
                                SimpleMessage(r),
                                Items(<<StatusItem(SimpleMessage(r), IsoString(now), url)>>)))

SimpleCatch(id, name, url, now) ==
    StatusSummary(id, name, "degraded", url, IsoString(now), "Unable to reach endpoint",
                  Items(<<StatusItem("Unable to reach endpoint", IsoString(now), url)>>))

getSimpleHttpStatus(id, name, url, r, now) ==
    TryCatch(SimpleTry(id, name, url, r, now), SimpleCatch(id, name, url, now))

\* ---------------------------------------------------------- stripHtml
\* s.replace(/pat/g, "") for a literal pat that cannot overlap itself
RemoveAll(s, pat) ==
    LET occ == Occurrences(s, pat)
        piece == [i \in 1..Len(s) |->
                    IF \E o \in occ : o <= i /\ i < o + Len(pat) THEN "" ELSE CharAt(s, i)]
    IN ConcatRange(piece, 1, Len(s))

\* s.replace(/<[^>]+>/g, " "): a match runs from the first "<" after the previous
\* ">" to the next ">", with at least one character between them.
ReplaceTags(s) ==
    LET gts == Occurrences(s, ">")
        lts == Occurrences(s, "<")
        \* the match that ends at the ">" at j: its first position, 0 when none
        start(j) ==
            LET before == {g \in gts : g < j}
                g == IF before = {} THEN 0 ELSE SetMax(before)
                opens == {i \in lts : g < i /\ i <= j - 2}
            IN IF opens = {} THEN 0 ELSE SetMin(opens)
        piece == [p \in 1..Len(s) |->
                    LET after == {j \in gts : j >= p}
                        j == IF after = {} THEN 0 ELSE SetMin(after)
                        i == IF j = 0 THEN 0 ELSE start(j)
                    IN IF i = 0 \/ p < i THEN CharAt(s, p)
                       ELSE IF p = i THEN " " ELSE ""]
    IN ConcatRange(piece, 1, Len(s))

\* s.replace(/\s+/g, " ")
CollapseSpaces(s) ==
    LET piece == [p \in 1..Len(s) |->
                    IF ~IsSpace(s, p) THEN CharAt(s, p)
                    ELSE IF p > 1 /\ IsSpace(s, p - 1) THEN "" ELSE " "]
    IN ConcatRange(piece, 1, Len(s))

stripHtml(input) ==
    IF input = "" THEN ""
    ELSE Trim(CollapseSpaces(ReplaceTags(RemoveAll(RemoveAll(input, "<![CDATA["), "]]>"))))

\* ------------------------------------------------------------ getRssStatus
\* a || b on strings
JsOr(a, b) == IF a = "" THEN b ELSE a

\* [...xml.matchAll(/<item>[\s\S]*?<\/item>/gi)].map((m) => m[0]), scanning from
\* position from; lower is xml in lower case.
RECURSIVE ItemBlocksFrom(_, _, _)
ItemBlocksFrom(xml, lower, from) ==
    LET i == IndexFrom(lower, "<item>", from) IN
    IF i = 0 THEN <<>>
    ELSE LET j == IndexFrom(lower, "</item>", i + 6) IN
         IF j = 0 THEN <<>>
         ELSE <<SubSeq(xml, i, j + 6)>> \o ItemBlocksFrom(xml, lower, j + 7)

ItemBlocks(xml) == ItemBlocksFrom(xml, ToLowerCase(xml), 1)

\* block.match(/<tag>([\s\S]*?)<\/tag>/i)?.[1]: the text between the first <tag>
\* and the first </tag> after it, undefined when there is no such pair.
LazyCapture(block, tag) ==
    LET lower == ToLowerCase(block)
        open == "<" \o tag \o ">"
        close == "</" \o tag \o ">"
        i == IndexFrom(lower, open, 1)
        j == IF i = 0 THEN 0 ELSE IndexFrom(lower, close, i + Len(open))
    IN IF j = 0 THEN Undefined ELSE SubSeq(block, i + Len(open), j - 1)

\* block.match(/<tag>([^<]*)<\/tag>/i)?.[1]: the text after the first <tag> whose
\* next "<" starts </tag>, undefined when there is none.
PlainCapture(block, tag) ==
    LET lower == ToLowerCase(block)
        open == "<" \o tag \o ">"
        close == "</" \o tag \o ">"
        ends(i) == IndexFrom(lower, "<", i + Len(open))
        hits == {i \in Occurrences(lower, open) : ends(i) \in Occurrences(lower, close)}
    IN IF hits = {} THEN Undefined
       ELSE SubSeq(block, SetMin(hits) + Len(open), ends(SetMin(hits)) - 1)

\* m?.[1]?.trim()
TrimIfDefined(v) == IF v = Undefined THEN Undefined ELSE Trim(v)

\* A mutant of RssItemCap: the last three blocks are kept (slice(-3)).
RssItemCapLast(blocks) == SubSeq(blocks, Len(blocks) - Min(3, Len(blocks)) + 1, Len(blocks))

\* itemBlocks.slice(0, 3)
RssItemCap(blocks) == SubSeq(blocks, 1, Min(3, Len(blocks)))

RssItem(block) ==
    LET rawItemTitle == Coalesce(LazyCapture(block, "title"), "")
        rawItemDesc == Coalesce(LazyCapture(block, "description"), "")
        plain == stripHtml(JsOr(rawItemTitle, JsOr(rawItemDesc, "No title")))
    IN StatusItem(truncate(plain, 120),
                  TrimIfDefined(PlainCapture(block, "pubdate")),
                  TrimIfDefined(PlainCapture(block, "link")))

RssTry(id, name, url, detailUrl, r) ==
    IF r.net = "error" \/ ~ResOk(r) THEN Threw
    ELSE LET read == ResText(r.body) IN
         IF read.threw THEN Threw
         ELSE LET itemBlocks == ItemBlocks(read.value)
                  firstItem == IF Len(itemBlocks) = 0 THEN "" ELSE itemBlocks[1]
                  plainTitle == stripHtml(Coalesce(LazyCapture(firstItem, "title"), ""))
                  plainDesc == stripHtml(Coalesce(LazyCapture(firstItem, "description"), ""))
                  lastUpdated == TrimIfDefined(PlainCapture(firstItem, "pubdate"))
                  combinedPlain == Trim(plainTitle \o " " \o plainDesc)
                  kept == RssItemCap(itemBlocks)
                  messageSource ==
                      JsOr(combinedPlain,
                           JsOr(plainTitle, JsOr(plainDesc, "No recent items in feed")))
              IN Returned(StatusSummary(
                     id, name, inferStatusFromText(combinedPlain),
                     Coalesce(detailUrl, url), lastUpdated, truncate(messageSource, 260),
                     ItemsOrUndefined([k \in DOMAIN kept |-> RssItem(kept[k])])))

RssCatch(id, name, url, detailUrl, now) ==
    StatusSummary(id, name, "degraded", Coalesce(detailUrl, url), IsoString(now),
                  "Unable to fetch status feed",
                  Items(<<StatusItem("Unable to fetch status feed", IsoString(now),
                                     Coalesce(detailUrl, url))>>))

getRssStatus(id, name, url, detailUrl, r, now) ==
    TryCatch(RssTry(id, name, url, detailUrl, r), RssCatch(id, name, url, detailUrl, now))

\* ---------------------------------------------------- getStatuspageStatus
StatuspageTry(id, name, url, detailUrl, r) ==
    IF r.net = "error" \/ ~ResOk(r) THEN Threw
    ELSE LET parsed == ResJson(r.body) IN
         IF parsed.threw THEN Threw
         ELSE LET data == parsed.value IN
              Returned(StatusSummary(id, name, mapStatuspageIndicator(DataIndicator(data)),
                                     detailUrl, DataUpdatedAt(data), DataDescription(data),
                                     NoItems))

\* A mutant of StatuspageCatch: the failure summary carries no item.
StatuspageCatchNoItem(id, name, detailUrl, now) ==
    StatusSummary(id, name, "degraded", detailUrl, IsoString(now), "Unable to fetch status",
                  NoItems)

StatuspageCatch(id, name, detailUrl, now) ==
    StatusSummary(id, name, "degraded", detailUrl, IsoString(now), "Unable to fetch status",
                  Items(<<StatusItem("Unable to fetch " \o name \o " status", IsoString(now),
                                     detailUrl)>>))

getStatuspageStatus(id, name, url, detailUrl, r, now) ==
    TryCatch(StatuspageTry(id, name, url, detailUrl, r),
             StatuspageCatch(id, name, detailUrl, now))

\* --------------------------------------------------- getCybersourceStatus
\* (data?.incidents ?? []) as any[]
DataIncidents(data) ==
    IF data.t = "object" /\ data.incidents.t \notin {"undefined", "null"}
    THEN data.incidents
    ELSE [t |-> "list", items |-> <<>>]

\* A mutant of IncidentCap: every incident is kept.
IncidentCapNone(list) == list

\* incidents.slice(0, 3)
IncidentCap(list) == SubSeq(list, 1, Min(3, Len(list)))

\* A mutant of IncidentItem: the title has no fallback.
IncidentItemNoFallback(incident) ==
    StatusItem(incident.name,
               Coalesce(incident.started_at, incident.created_at),
               Coalesce(incident.shortlink,
                        Coalesce(incident.url, "https://status.cybersource.com")))

IncidentItem(incident) ==
    StatusItem(Coalesce(incident.name, "Incident"),
               Coalesce(incident.started_at, incident.created_at),
               Coalesce(incident.shortlink,
                        Coalesce(incident.url, "https://status.cybersource.com")))

CybersourceTry(r) ==
    IF r.net = "error" \/ ~ResOk(r) THEN Threw
    ELSE LET parsed == ResJson(r.body) IN
         IF parsed.threw THEN Threw
         ELSE LET data == parsed.value
                  incidents == DataIncidents(data)
              IN
              \* a value that is no array has no slice, or its slice has no map
              IF incidents.t # "list" THEN Threw
              ELSE LET kept == IncidentCap(incidents.items) IN
                   \* reading incident.name of a null entry throws
                   IF \E k \in DOMAIN kept : kept[k].t # "object" THEN Threw
                   ELSE Returned(StatusSummary(
                            "cybersource", "Cybersource",
                            mapStatuspageIndicator(DataIndicator(data)),
                            "https://status.cybersource.com",
                            DataUpdatedAt(data), DataDescription(data),
                            ItemsOrUndefined([k \in DOMAIN kept |-> IncidentItem(kept[k])])))

CybersourceCatch(now) ==
    StatusSummary("cybersource", "Cybersource", "degraded", "https://status.cybersource.com",
                  IsoString(now), "Unable to fetch status",
                  Items(<<StatusItem("Unable to fetch Cybersource status", IsoString(now),
                                     "https://status.cybersource.com")>>))

getCybersourceStatus(r, now) == TryCatch(CybersourceTry(r), CybersourceCatch(now))

\* --------------------------------------------------------------- providers
getCloudflareStatus(r, now) ==
    getStatuspageStatus("cloudflare", "Cloudflare",
                        "https://www.cloudflarestatus.com/api/v2/status.json",
                        "https://www.cloudflarestatus.com", r, now)

getAwsHealthStatus(r, now) ==
    getSimpleHttpStatus("aws-health", "AWS Health",
                        "https://health.aws.amazon.com/health/status", r, now)

\* A mutant of getAwsHealthUsEast2Status: the id is copied from getAwsHealthStatus.
getAwsHealthUsEast2StatusCopiedId(r, now) ==
    getSimpleHttpStatus("aws-health", "AWS Health (us-east-2)",
                        "https://health.aws.amazon.com/health/status?region=us-east-2", r, now)

getAwsHealthUsEast2Status(r, now) ==
    getSimpleHttpStatus("aws-health-us-east-2", "AWS Health (us-east-2)",
                        "https://health.aws.amazon.com/health/status?region=us-east-2", r, now)

getVercelStatus(r, now) ==
    getStatuspageStatus("vercel", "Vercel",
                        "https://www.vercel-status.com/api/v2/status.json",
                        "https://www.vercel-status.com", r, now)

getContentfulStatus(r, now) ==
    getStatuspageStatus("contentful", "Contentful",
                        "https://www.contentfulstatus.com/api/v2/status.json",
                        "https://www.contentfulstatus.com", r, now)

getJiraStatus(r, now) ==
    getStatuspageStatus("jira", "Jira Software",
                        "https://jira-software.status.atlassian.com/api/v2/status.json",
                        "https://jira-software.status.atlassian.com/", r, now)

getConfluenceStatus(r, now) ==
    getStatuspageStatus("confluence", "Confluence",
                        "https://confluence.status.atlassian.com/api/v2/status.json",
                        "https://confluence.status.atlassian.com/", r, now)

getCommercetoolsStatus(r, now) ==
    getRssStatus("commercetools", "commercetools",
                 "https://status.commercetools.com/pages/56e4295370fe4ece420002bb/rss",
                 "https://status.commercetools.com", r, now)

getOrdergrooveStatus(r, now) ==
    getSimpleHttpStatus("ordergroove", "Ordergroove",
                        "https://status.ordergroove.com/api/v2/status.json", r, now)

getDatadogEuStatus(r, now) ==
    getStatuspageStatus("datadog-eu", "Datadog EU",
                        "https://status.datadoghq.eu/api/v2/status.json",
                        "https://status.datadoghq.eu", r, now)

getGithubStatus(r, now) ==
    getStatuspageStatus("github", "GitHub",
                        "https://www.githubstatus.com/api/v2/status.json",
                        "https://www.githubstatus.com", r, now)

getBoomiStatus(r, now) ==
    getStatuspageStatus("boomi", "Boomi",
                        "https://status.boomi.com/api/v2/status.json",
                        "https://status.boomi.com", r, now)

\* The array literal of getAllStatuses: the provider at each position and the
\* fetcher it delegates to.
Roster ==
    << [fn |-> "getAwsHealthStatus", kind |-> "simple"],
       [fn |-> "getAwsHealthUsEast2Status", kind |-> "simple"],
       [fn |-> "getCloudflareStatus", kind |-> "statuspage"],
       [fn |-> "getDatadogEuStatus", kind |-> "statuspage"],
       [fn |-> "getGithubStatus", kind |-> "statuspage"],
       [fn |-> "getBoomiStatus", kind |-> "statuspage"],
       [fn |-> "getCybersourceStatus", kind |-> "cybersource"],
       [fn |-> "getCommercetoolsStatus", kind |-> "rss"],
       [fn |-> "getOrdergrooveStatus", kind |-> "simple"],
       [fn |-> "getVercelStatus", kind |-> "statuspage"],
       [fn |-> "getContentfulStatus", kind |-> "statuspage"],
       [fn |-> "getJiraStatus", kind |-> "statuspage"],
       [fn |-> "getConfluenceStatus", kind |-> "statuspage"] >>

NumSources == Len(Roster)
Sources == 1..NumSources
Kind(i) == Roster[i].kind

\* The promise the provider at position i settles to, given the outcome r of its
\* HTTP request and the clock reading now when its continuation runs.
CallProvider(i, r, now) ==
    CASE Roster[i].fn = "getAwsHealthStatus" -> getAwsHealthStatus(r, now)
      [] Roster[i].fn = "getAwsHealthUsEast2Status" -> getAwsHealthUsEast2Status(r, now)
      [] Roster[i].fn = "getCloudflareStatus" -> getCloudflareStatus(r, now)
      [] Roster[i].fn = "getDatadogEuStatus" -> getDatadogEuStatus(r, now)
      [] Roster[i].fn = "getGithubStatus" -> getGithubStatus(r, now)
      [] Roster[i].fn = "getBoomiStatus" -> getBoomiStatus(r, now)
      [] Roster[i].fn = "getCybersourceStatus" -> getCybersourceStatus(r, now)
      [] Roster[i].fn = "getCommercetoolsStatus" -> getCommercetoolsStatus(r, now)
      [] Roster[i].fn = "getOrdergrooveStatus" -> getOrdergrooveStatus(r, now)
      [] Roster[i].fn = "getVercelStatus" -> getVercelStatus(r, now)
      [] Roster[i].fn = "getContentfulStatus" -> getContentfulStatus(r, now)
      [] Roster[i].fn = "getJiraStatus" -> getJiraStatus(r, now)
      [] Roster[i].fn = "getConfluenceStatus" -> getConfluenceStatus(r, now)

\* ======================================================================
\* The environment: what the network can answer
\* ======================================================================
HttpStatuses == {200, 404, 499, 500, 503}

JsonIndicators == {Undefined, Null, "none", "minor", "major", "critical", "maintenance"}

Incident(name, started_at, created_at, shortlink, url) ==
    [t |-> "object", name |-> name, started_at |-> started_at, created_at |-> created_at,
     shortlink |-> shortlink, url |-> url]

IncidentKinds ==
    { Incident("Payment API latency", "2024-03-04T10:00:00Z", "2024-03-04T09:58:00Z",
               "https://stspg.io/abc", "https://status.cybersource.com/incidents/abc"),
      Incident(Undefined, Null, "2024-03-03T08:00:00Z",
               Undefined, "https://status.cybersource.com/incidents/def"),
      Incident("", Undefined, Undefined, Undefined, Undefined),
      \* a null entry of the list
      [t |-> "null", name |-> Undefined, started_at |-> Undefined, created_at |-> Undefined,
       shortlink |-> Undefined, url |-> Undefined] }

IncidentLists == UNION { [1..n -> IncidentKinds] : n \in 0..MaxIncidents }

\* The incidents field of a document: missing, null, a value that is no array, a list.
IncidentFields ==
    {[t |-> "undefined", items |-> <<>>], [t |-> "null", items |-> <<>>],
     [t |-> "nonlist", items |-> <<>>]}
    \cup {[t |-> "list", items |-> l] : l \in IncidentLists}

JsonObject(indicator, description, updated_at, incidents) ==
    [t |-> "object", indicator |-> indicator, description |-> description,
     updated_at |-> updated_at, incidents |-> incidents]

\* What res.json() can parse to: null, a scalar, or an object whose fields may be
\* missing.
JsonDocs ==
    {[t |-> "null"], [t |-> "scalar"]}
    \cup {JsonObject(ind, meta[1], meta[2], inc) :
            ind \in JsonIndicators,
            meta \in {<<Undefined, Undefined>>,
                      <<"All Systems Operational", "2024-03-04T09:00:00.000Z">>},
            inc \in IncidentFields}

RECURSIVE Repeat(_, _)
Repeat(s, n) == IF n = 0 THEN "" ELSE s \o Repeat(s, n - 1)

ItemOutage ==
    "<item><title><![CDATA[Major Outage: Checkout API]]></title>"
    \o "<description><p>We are <b>investigating</b>\n elevated errors.</p></description>"
    \o "<pubDate> Mon, 04 Mar 2024 10:00:00 GMT </pubDate>"
    \o "<link>https://status.commercetools.com/incidents/1</link></item>"

ItemResolved ==
    "<item><title>Resolved: Import API delays</title>"
    \o "<link> https://status.commercetools.com/incidents/2 </link></item>"

ItemUpper ==
    "<ITEM><DESCRIPTION>Scheduled  maintenance window</DESCRIPTION>"
    \o "<PUBDATE>Sun, 03 Mar 2024</PUBDATE></ITEM>"

ItemPlain == "<item><title>Release notes 2024.3</title><description></description></item>"

ItemLong ==
    "<item><title>" \o Repeat("Partial degradation of search. ", 5) \o "</title>"
    \o "<description>" \o Repeat("Engineers are monitoring the fix. ", 6)
    \o "</description></item>"

ItemKinds == {ItemOutage, ItemResolved, ItemUpper, ItemPlain}

ItemLists == UNION { [1..n -> ItemKinds] : n \in 0..MaxItems }

FeedHeader == "<?xml version=\"1.0\"?><rss><channel><title>Status - Incident History</title>"
FeedFooter == "</channel></rss>"

Feed(blocks) == FeedHeader \o ConcatRange(blocks, 1, Len(blocks)) \o FeedFooter

HtmlErrorPage == "<html><body><h1>Service Unavailable</h1></body></html>"

\* What res.text() can read: feeds of item blocks, and bodies that are no feed.
FeedTexts ==
    {Feed(l) : l \in ItemLists}
    \cup { "",
           HtmlErrorPage,
           Feed(<<ItemLong, ItemOutage>>),
           Feed(<<"<item></item>">>),
           Feed(<<"<item><title><![CDATA[]]></title></item>">>),
           \* an item block that is never closed
           FeedHeader \o "<item><title>Outage</title>" }

ReadFail == [kind |-> "readfail"]
JsonBody(data) == [kind |-> "json", data |-> data]
TextBody(text) == [kind |-> "text", text |-> text]

\* The bodies a successful response to a fetcher of this kind can carry. The simple
\* fetcher never reads the body.
BodiesFor(kind) ==
    CASE kind = "simple" -> {NoBody}
      [] kind = "rss" -> {ReadFail} \cup {TextBody(t) : t \in FeedTexts}
      [] OTHER -> {ReadFail, TextBody(HtmlErrorPage)} \cup {JsonBody(d) : d \in JsonDocs}

ResponsesFor(kind) ==
    {NetFail}
    \cup {Response(st, NoBody) : st \in {x \in HttpStatuses : x \notin 200..299}}
    \cup {Response(st, b) : st \in {x \in HttpStatuses : x \in 200..299}, b \in BodiesFor(kind)}

NoResp == [net |-> "none", status |-> 0, body |-> NoBody]

\* ======================================================================
\* FetchSpec: one provider call
\* ======================================================================
FetchIdle ==
    fsrc = 0 /\ fpc = "idle" /\ fresp = NoResp /\ fout = Pending /\ fnow = 0

\* The provider is called and issues its HTTP GET.
FetchCall ==
    /\ fpc = "idle"
    /\ \E i \in Sources : fsrc' = i
    /\ fpc' = "waiting"
    /\ UNCHANGED <<fresp, fout, fnow>>

\* The request settles with outcome r at clock reading t and the provider runs to
\* its return.
FetchSettle ==
    /\ fpc = "waiting"
    /\ \E r \in ResponsesFor(Kind(fsrc)), t \in 0..MaxClock :
          /\ fresp' = r
          /\ fnow' = t
          /\ fout' = CallProvider(fsrc, r, t)
    /\ fpc' = "done"
    /\ UNCHANGED fsrc

\* ======================================================================
\* ClassifySpec: inferStatusFromText over bounded input texts
\* ======================================================================
NotRun == "<not run>"

\* The words input texts are built from, each with the tier of the keyword it
\* carries (in any letter case, possibly inside a longer word).
Vocab ==
    << [w |-> "Major Outage", tier |-> "red"],
       [w |-> "CRITICAL", tier |-> "red"],
       [w |-> "non-critical", tier |-> "red"],
       [w |-> "Unavailable", tier |-> "red"],
       [w |-> "Service Disruption", tier |-> "red"],
       [w |-> "downtime", tier |-> "red"],
       [w |-> "outage", tier |-> "red"],
       [w |-> "Partial", tier |-> "amber"],
       [w |-> "degraded", tier |-> "amber"],
       [w |-> "Degradation", tier |-> "amber"],
       [w |-> "INCIDENT", tier |-> "amber"],
       [w |-> "maintenance", tier |-> "amber"],
       [w |-> "Investigating", tier |-> "amber"],
       [w |-> "monitoring", tier |-> "amber"],
       [w |-> "Resolved", tier |-> "green"],
       [w |-> "operational", tier |-> "green"],
       [w |-> "abnormal", tier |-> "green"],
       [w |-> "All Systems", tier |-> "green"],
       [w |-> "service", tier |-> "none"],
       [w |-> "OK.", tier |-> "none"] >>

WordLists == UNION { [1..n -> DOMAIN Vocab] : n \in 0..MaxWords }

RECURSIVE JoinFrom(_, _)
JoinFrom(ws, i) ==
    IF i > Len(ws) THEN ""
    ELSE Vocab[ws[i]].w \o (IF i < Len(ws) THEN " " ELSE "") \o JoinFrom(ws, i + 1)

\* The text a word list spells: its words separated by single spaces.
JoinWords(ws) == JoinFrom(ws, 1)

HasTier(ws, t) == \E i \in DOMAIN ws : Vocab[ws[i]].tier = t

ClassifyIdle == cwords = <<>> /\ ctext = "" /\ clevel = NotRun

ClassifyInit ==
    /\ cwords \in WordLists
    /\ ctext = JoinWords(cwords)
    /\ clevel = NotRun

ClassifyApply ==
    /\ clevel = NotRun
    /\ clevel' = inferStatusFromText(ctext)
    /\ UNCHANGED <<cwords, ctext>>

\* ======================================================================
\* Spec: one aggregation pass, getAllStatuses on the event loop
\* ======================================================================
NotCalled == [state |-> "not called"]

\* The answers of a pass: the provider's usual success, and for the providers the
\* bound lets fail a transport failure and a non-success status.
NominalResponse(kind) ==
    CASE kind = "simple" -> Response(200, NoBody)
      [] kind = "rss" -> Response(200, TextBody(Feed(<<ItemResolved>>)))
      [] OTHER ->
          Response(200, JsonBody(JsonObject("none", "All Systems Operational",
                                            "2024-03-04T09:00:00.000Z",
                                            [t |-> "undefined", items |-> <<>>])))

FaultResponses == {NetFail, Response(503, NoBody)}

\* The roster positions in the order in which the bound lets them fail: one provider
\* of each fetcher kind first, then the last position, then the rest.
FailOrder == <<7, 8, 1, 3, 13, 9, 2, 4, 5, 6, 10, 11, 12>>

FaultProne == {FailOrder[k] : k \in 1..Min(MaxFailing, Len(FailOrder))}

PassResponses(i) ==
    {NominalResponse(Kind(i))} \cup (IF i \in FaultProne THEN FaultResponses ELSE {})

PassIdle ==
    /\ pc = "idle"
    /\ started = 0
    /\ resp = [i \in Sources |-> NoResp]
    /\ requests = [i \in Sources |-> 0]
    /\ results = [i \in Sources |-> NotCalled]
    /\ returned = Pending
    /\ clock = 0

\* getAllStatuses has been called and starts to evaluate its array literal. The pass
\* is modelled at one clock reading; FetchSpec varies the clock.
PassInit ==
    /\ pc = "calling"
    /\ started = 0
    /\ resp = [i \in Sources |-> NoResp]
    /\ requests = [i \in Sources |-> 0]
    /\ results = [i \in Sources |-> NotCalled]
    /\ returned = Pending
    /\ clock = 0

\* The next element of the array literal: the provider is called, runs to its
\* await fetch(url) and hands back its pending promise. After the last element
\* Promise.all takes the array and getAllStatuses awaits it.
Invoke ==
    /\ pc = "calling"
    /\ started < NumSources
    /\ started' = started + 1
    /\ requests' = [requests EXCEPT ![started + 1] = @ + 1]
    /\ results' = [results EXCEPT ![started + 1] = Pending]
    /\ pc' = IF started + 1 = NumSources THEN "awaiting" ELSE "calling"
    /\ UNCHANGED <<resp, returned, clock>>

\* The promise each provider settles to, for every answer of a pass and every
\* clock reading: CallProvider, tabulated once.
PassOutcome ==
    [i \in Sources |->
        [r \in PassResponses(i) |-> [t \in 0..MaxClock |-> CallProvider(i, r, t)]]]

\* A mutant of SettlePromise: a failure is written to every promise still pending.
SettlePromiseShared(i, r, p) ==
    IF r \in FaultResponses
    THEN [j \in Sources |-> IF results[j] = Pending THEN p ELSE results[j]]
    ELSE [results EXCEPT ![i] = p]

\* The provider at position i settles its own promise.
SettlePromise(i, r, p) == [results EXCEPT ![i] = p]

\* A mutant of ContinuationRequests: a failed request is issued once more.
ContinuationRequestsRetry(i, r) ==
    IF r \in FaultResponses THEN [requests EXCEPT ![i] = @ + 1] ELSE requests

\* The GETs issued so far once the continuation of provider i has run on outcome r:
\* neither the rest of the try block nor the catch block calls fetch.
ContinuationRequests(i, r) == requests

\* The request of provider i settles with outcome r; the provider's continuation
\* runs to its return. Continuations run only once the synchronous part is over.
Settle(i) ==
    /\ pc = "awaiting"
    /\ results[i] = Pending
    /\ \E r \in PassResponses(i) :
          /\ resp' = [resp EXCEPT ![i] = r]
          /\ results' = SettlePromise(i, r, PassOutcome[i][r][clock])
          /\ requests' = ContinuationRequests(i, r)
    /\ UNCHANGED <<pc, started, returned, clock>>

\* A mutant of PromiseAll: it settles with the first promise fulfilled (Promise.race).
PromiseRace(ps) ==
    IF \E i \in DOMAIN ps : ps[i].state = "rejected" THEN Rejected
    ELSE IF \E i \in DOMAIN ps : ps[i].state = "fulfilled"
    THEN Fulfilled([i \in DOMAIN ps |->
                      IF ps[i].state = "fulfilled" THEN ps[i].value
                      ELSE (CHOOSE j \in DOMAIN ps : ps[j].state = "fulfilled")])
    ELSE Pending

\* Promise.all: rejected as soon as one promise is rejected, fulfilled with the
\* values in the order of the array once every promise is fulfilled.
PromiseAll(ps) ==
    IF \E i \in DOMAIN ps : ps[i].state = "rejected" THEN Rejected
    ELSE IF \A i \in DOMAIN ps : ps[i].state = "fulfilled"
    THEN Fulfilled([i \in DOMAIN ps |-> ps[i].value])
    ELSE Pending

\* Promise.all settles and getAllStatuses settles with it.
AllSettle ==
    /\ pc = "awaiting"
    /\ PromiseAll(results) # Pending
    /\ returned' = PromiseAll(results)
    /\ pc' = "done"
    /\ UNCHANGED <<started, resp, requests, results, clock>>

\* ======================================================================
\* Specifications
\* ======================================================================
Init == PassInit /\ FetchIdle /\ ClassifyIdle

Next ==
    \/ Invoke /\ UNCHANGED <<cvars, fvars>>
    \/ \E i \in Sources : Settle(i) /\ UNCHANGED <<cvars, fvars>>
    \/ AllSettle /\ UNCHANGED <<cvars, fvars>>

Spec == Init /\ [][Next]_vars

\* The event loop runs every step that stays enabled: the synchronous part runs to
\* its end, every request settles, promise reactions run.
FairSpec ==
    /\ Init
    /\ [][Next]_vars
    /\ WF_pvars(Invoke)
    /\ WF_pvars(\E i \in Sources : Settle(i))
    /\ WF_pvars(AllSettle)

FetchInit == FetchIdle /\ PassIdle /\ ClassifyIdle

FetchNext ==
    \/ FetchCall /\ UNCHANGED <<cvars, pvars>>
    \/ FetchSettle /\ UNCHANGED <<cvars, pvars>>

FetchSpec == FetchInit /\ [][FetchNext]_vars

ClassifySpecInit == ClassifyInit /\ FetchIdle /\ PassIdle

ClassifyNext == ClassifyApply /\ UNCHANGED <<fvars, pvars>>

ClassifySpec == ClassifySpecInit /\ [][ClassifyNext]_vars

\* ======================================================================
\* Claims
\* ======================================================================
FetchDone == fpc = "done"

\* The HTTP request of the provider called failed: no response, or, for the
\* fetchers that test res.ok, a non-success status.
RequestFailed ==
    \/ fresp.net = "error"
    \/ fresp.net = "ok" /\ Kind(fsrc) # "simple" /\ ~ResOk(fresp)

IsStatusItem(it) ==
    /\ DOMAIN it = {"title", "date", "link"}
    /\ it.title # Undefined

IsStatusSummary(v) ==
    /\ DOMAIN v = {"id", "name", "status", "detailUrl", "lastUpdated", "message",
                   "latestItems"}
    /\ v.id # Undefined /\ v.name # Undefined
    /\ v.status \in StatusLevel
    /\ \A k \in DOMAIN v.latestItems.items : IsStatusItem(v.latestItems.items[k])

\* The ids of the configured sources, in the order of getAllStatuses' array.
ConfiguredIds ==
    <<"aws-health", "aws-health-us-east-2", "cloudflare", "datadog-eu", "github", "boomi",
      "cybersource", "commercetools", "ordergroove", "vercel", "contentful", "jira",
      "confluence">>

\* C1: whatever the outcomes of the fetches and the order they complete in,
\* getAllStatuses returns a list of exactly 13 summaries, the one of each configured
\* source at its roster position, with pairwise distinct ids.
C1_OnePerSource ==
    pc = "done" =>
        /\ returned.state = "fulfilled"
        /\ DOMAIN returned.value = 1..13
        /\ \A i \in 1..13 :
              /\ returned.value[i] = results[i].value
              /\ returned.value[i].id = ConfiguredIds[i]
        /\ \A i, j \in 1..13 : i # j => returned.value[i].id # returned.value[j].id

\* getAllStatuses has returned after a pass in which a request got a 503.
C1_Witness ==
    /\ pc = "done"
    /\ returned.state = "fulfilled"
    /\ \E i \in Sources : resp[i].net = "ok" /\ resp[i].status = 503

\* The fields of a summary other than its timestamps.
SummaryView(v) ==
    [id |-> v.id, name |-> v.name, status |-> v.status, message |-> v.message,
     detailUrl |-> v.detailUrl, hasItems |-> v.latestItems.defined,
     items |-> [k \in DOMAIN v.latestItems.items |->
                  <<v.latestItems.items[k].title, v.latestItems.items[k].link>>]]

\* The entry of source i is what its provider makes of its own HTTP outcome, at any
\* clock reading.
OwnOutcome(i) ==
    /\ resp[i] \in PassResponses(i)
    /\ \A t \in 0..MaxClock :
          /\ PassOutcome[i][resp[i]][t].state = "fulfilled"
          /\ SummaryView(results[i].value) = SummaryView(PassOutcome[i][resp[i]][t].value)

\* C4: sources are isolated within a pass. The entry of source i (id, name, level,
\* message, item titles and links, detailUrl) is determined by the outcome of its
\* own fetch alone, whatever the other fetches do; and the step that settles
\* source i writes no promise and no outcome but its own.
C4_Isolated ==
    /\ [](\A i \in Sources : results[i].state = "fulfilled" => OwnOutcome(i))
    /\ [][\A i \in Sources :
            results'[i] # results[i] =>
                \A j \in Sources \ {i} : results'[j] = results[j] /\ resp'[j] = resp[j]]_vars

\* Two sources have settled, one of them on a transport failure, while others are
\* still in flight.
C4_Witness ==
    /\ pc = "awaiting"
    /\ \E i, j, k \in Sources :
          /\ i # j
          /\ resp[i] = NetFail /\ results[i].state = "fulfilled"
          /\ resp[j] = NominalResponse(Kind(j)) /\ results[j].state = "fulfilled"
          /\ results[j].value.status = "operational"
          /\ results[k] = Pending

Settled(i) == results[i].state \in {"fulfilled", "rejected"}

\* C5: a pass is a fan-out/fan-in join. Every fetch is started before any is
\* settled or awaited; a fetch in flight can settle whatever the others have done;
\* getAllStatuses does not settle before each of the 13 fetches has settled, also
\* when one has failed; and when every fetch settles, getAllStatuses returns.
C5_FanOutFanIn ==
    /\ []((\E i \in Sources : resp[i] # NoResp \/ Settled(i)) =>
             \A j \in Sources : requests[j] = 1)
    /\ [](pc = "awaiting" => \A i \in Sources : results[i] = Pending => ENABLED Settle(i))
    /\ []((pc = "done" \/ returned # Pending) => \A i \in Sources : Settled(i))
    /\ <>(pc = "done" /\ returned.state = "fulfilled")

\* getAllStatuses has returned after a pass in which a request failed in transport.
C5_Witness ==
    /\ pc = "done"
    /\ returned.state = "fulfilled"
    /\ \E i \in Sources : resp[i] = NetFail
    /\ \A i \in Sources : Settled(i)

\* C2: no fetcher raises. Whatever the outcome of its HTTP request (transport
\* failure, non-success status, a success whose body cannot be read or parsed or
\* has the wrong shape), the provider's promise is fulfilled with a StatusSummary,
\* so Promise.all over an array holding it is not rejected by it.
C2_NeverRaises ==
    FetchDone =>
        /\ fout.state = "fulfilled"
        /\ IsStatusSummary(fout.value)
        /\ PromiseAll([i \in Sources |-> IF i = fsrc THEN fout ELSE Pending]).state
              # "rejected"

\* getCybersourceStatus has returned after a document whose incidents field is no
\* list (the access throws inside the try block).
C2_Witness ==
    /\ FetchDone
    /\ Kind(fsrc) = "cybersource"
    /\ ResOk(fresp)
    /\ fresp.body.kind = "json"
    /\ fresp.body.data.t = "object"
    /\ fresp.body.data.incidents.t = "nonlist"

FailureMessage(kind) ==
    CASE kind = "simple" -> "Unable to reach endpoint"
      [] kind = "rss" -> "Unable to fetch status feed"
      [] OTHER -> "Unable to fetch status"

\* C3: when the HTTP request fails (transport failure for every fetcher, non-success
\* status for the status-API and RSS fetchers), the summary has level degraded, the
\* fetcher's fixed non-empty message, the current time as lastUpdated and exactly
\* one synthetic latestItem recording the failure at that time.
C3_FailureSummary ==
    (FetchDone /\ RequestFailed) =>
        /\ fout.state = "fulfilled"
        /\ fout.value.status = "degraded"
        /\ fout.value.message = FailureMessage(Kind(fsrc))
        /\ fout.value.message # ""
        /\ fout.value.lastUpdated = IsoString(fnow)
        /\ fout.value.latestItems.defined
        /\ Len(fout.value.latestItems.items) = 1
        /\ Includes(fout.value.latestItems.items[1].title, "Unable to ")
        /\ fout.value.latestItems.items[1].date = IsoString(fnow)

\* A Statuspage provider has returned after a 404 at the later clock reading.
C3_Witness ==
    /\ FetchDone
    /\ Kind(fsrc) = "statuspage"
    /\ fresp.net = "ok" /\ fresp.status = 404
    /\ fnow = 1

\* C7: the simple-reachability fetcher maps every outcome to a level: success to
\* operational, a non-success status >= 500 to major_outage, a non-success status
\* < 500 to degraded, no response to degraded with "Unable to reach endpoint"; the
\* summary always has exactly one latestItem, whose title is the message.
C7_SimpleMapping ==
    (FetchDone /\ Kind(fsrc) = "simple") =>
        /\ fout.state = "fulfilled"
        /\ (fresp.net = "ok" /\ fresp.status \in 200..299) =>
              fout.value.status = "operational"
        /\ (fresp.net = "ok" /\ fresp.status \notin 200..299 /\ fresp.status >= 500) =>
              fout.value.status = "major_outage"
        /\ (fresp.net = "ok" /\ fresp.status \notin 200..299 /\ fresp.status < 500) =>
              fout.value.status = "degraded"
        /\ fresp.net = "error" =>
              /\ fout.value.status = "degraded"
              /\ fout.value.message = "Unable to reach endpoint"
        /\ fout.value.latestItems.defined
        /\ Len(fout.value.latestItems.items) = 1
        /\ fout.value.latestItems.items[1].title = fout.value.message

\* A simple provider has returned after a response with status exactly 500.
C7_Witness ==
    /\ FetchDone
    /\ Kind(fsrc) = "simple"
    /\ fresp.net = "ok" /\ fresp.status = 500
    /\ fout.value.status = "major_outage"

\* C8: in every summary a fetcher returns, on any path, latestItems is absent or a
\* list of at least 1 and at most 3 entries.
C8_ItemsBounded ==
    (FetchDone /\ fout.state = "fulfilled") =>
        \/ ~fout.value.latestItems.defined
        \/ Len(fout.value.latestItems.items) \in 1..3

\* getCybersourceStatus has returned three items for a list of more than three
\* incidents.
C8_Witness ==
    /\ FetchDone
    /\ Kind(fsrc) = "cybersource"
    /\ ResOk(fresp)
    /\ fresp.body.kind = "json"
    /\ fresp.body.data.t = "object"
    /\ Len(fresp.body.data.incidents.items) > 3
    /\ fout.value.latestItems.defined
    /\ Len(fout.value.latestItems.items) = 3

KnownIndicators == {"none", "minor", "major", "critical"}

AllKeywords == RedKeywords \cup AmberKeywords \cup GreenKeywords

\* The response was read as a JSON document.
GotJson == fresp.net = "ok" /\ fresp.status \in 200..299 /\ fresp.body.kind = "json"

\* The response was read as text.
GotText == fresp.net = "ok" /\ fresp.status \in 200..299 /\ fresp.body.kind = "text"

\* The JSON document read carries no indicator the fetcher recognises.
NoIndicator ==
    /\ Kind(fsrc) \in {"statuspage", "cybersource"}
    /\ GotJson
    /\ (fresp.body.data.t # "object" \/ fresp.body.data.indicator \notin KnownIndicators)

\* The feed read has no extractable item.
NoFeedItems == Kind(fsrc) = "rss" /\ GotText /\ Len(ItemBlocks(fresp.body.text)) = 0

\* The first item of the feed read holds no keyword of any tier.
NoFeedKeyword ==
    /\ Kind(fsrc) = "rss"
    /\ GotText
    /\ Len(ItemBlocks(fresp.body.text)) > 0
    /\ ~IncludesAny(ToLowerCase(ItemBlocks(fresp.body.text)[1]), AllKeywords)

\* C6 as stated: the level is never operational when the request fails or the
\* response carries no recognizable status signal (missing or unrecognized
\* indicator, a feed with no extractable items, feed text matching no keyword).
C6_Original ==
    (FetchDone /\ (fresp.net = "error" \/ fresp.status \notin 200..299
                   \/ NoIndicator \/ NoFeedItems \/ NoFeedKeyword)) =>
        fout.value.status \in {"degraded", "major_outage"}

\* C6, amended: the level is degraded or major_outage whenever the request fails
\* (no response, or a non-success status) and degraded whenever a body cannot be
\* read or parsed or a JSON document has a missing or unrecognized indicator; the
\* RSS fetcher however returns operational for a readable feed with no extractable
\* items or whose first item holds no keyword.
C6_FailSafeExceptFeed ==
    FetchDone =>
        /\ (fresp.net = "error" \/ fresp.status \notin 200..299) =>
              fout.value.status \in {"degraded", "major_outage"}
        /\ (fresp.net = "ok" /\ fresp.status \in 200..299 /\ Kind(fsrc) # "simple"
              /\ fresp.body.kind \notin {"json", "text"}) =>
              fout.value.status = "degraded"
        /\ (Kind(fsrc) \in {"statuspage", "cybersource"} /\ GotText) =>
              fout.value.status = "degraded"
        /\ NoIndicator => fout.value.status = "degraded"
        /\ NoFeedItems =>
              /\ fout.value.status = "operational"
              /\ fout.value.message = "No recent items in feed"
        /\ NoFeedKeyword => fout.value.status = "operational"

\* The RSS provider has returned operational for a feed whose first item holds no
\* keyword.
C6_Witness ==
    /\ FetchDone
    /\ NoFeedKeyword
    /\ fout.value.status = "operational"

ItemCount(v) == IF v.latestItems.defined THEN Len(v.latestItems.items) ELSE 0

\* A status-API provider read a JSON document with indicator "critical" and a list
\* of incidents.
CriticalWithIncidents ==
    /\ FetchDone
    /\ Kind(fsrc) \in {"statuspage", "cybersource"}
    /\ GotJson
    /\ fresp.body.data.t = "object"
    /\ fresp.body.data.indicator = "critical"
    /\ fresp.body.data.incidents.t = "list"

\* C9 as stated: given indicator "critical" and an incident list of n entries, the
\* status-API fetcher returns major_outage and min(n, 3) items (2 for n = 2), each
\* with a non-empty title.
C9_Original ==
    CriticalWithIncidents =>
        LET incidents == fresp.body.data.incidents.items IN
        /\ fout.value.status = "major_outage"
        /\ ItemCount(fout.value) = Min(Len(incidents), 3)
        /\ \A k \in DOMAIN fout.value.latestItems.items :
              fout.value.latestItems.items[k].title \notin {"", Undefined, Null}

\* C9, amended: given indicator "critical" and an incident list of n entries,
\* getStatuspageStatus returns major_outage and no latestItems; getCybersourceStatus
\* returns major_outage and min(n, 3) items (latestItems absent for n = 0) when the
\* first min(n, 3) entries are objects, each title being the incident's name, or
\* "Incident" when the name is missing or null (so an empty name gives an empty
\* title); a null entry among the first three gives the failure summary.
C9_CriticalIncidents ==
    CriticalWithIncidents =>
        LET incidents == fresp.body.data.incidents.items
            kept == Min(Len(incidents), 3)
        IN
        /\ Kind(fsrc) = "statuspage" =>
              /\ fout.value.status = "major_outage"
              /\ ~fout.value.latestItems.defined
        /\ (Kind(fsrc) = "cybersource" /\ \A k \in 1..kept : incidents[k].t = "object") =>
              /\ fout.value.status = "major_outage"
              /\ ItemCount(fout.value) = kept
              /\ fout.value.latestItems.defined <=> kept > 0
              /\ \A k \in 1..kept :
                    fout.value.latestItems.items[k].title =
                        IF incidents[k].name \in {Undefined, Null} THEN "Incident"
                        ELSE incidents[k].name
        /\ (Kind(fsrc) = "cybersource" /\ \E k \in 1..kept : incidents[k].t # "object") =>
              /\ fout.value.status = "degraded"
              /\ fout.value.message = "Unable to fetch status"

\* getCybersourceStatus has returned two items for a critical document with two
\* incidents, one of them without a name.
C9_Witness ==
    /\ CriticalWithIncidents
    /\ Kind(fsrc) = "cybersource"
    /\ Len(fresp.body.data.incidents.items) = 2
    /\ fresp.body.data.incidents.items[2].t = "object"
    /\ fresp.body.data.incidents.items[2].name = Undefined
    /\ fout.value.status = "major_outage"
    /\ ItemCount(fout.value) = 2
    /\ fout.value.latestItems.items[2].title = "Incident"

\* C10: the classifier applies strict tier priority, case-insensitively: the empty
\* text is operational; a text with a red keyword is major_outage whatever else it
\* holds; otherwise a text with an amber keyword is degraded; otherwise the text is
\* operational; the result is always one of the three levels.
C10_TierPriority ==
    clevel # NotRun =>
        /\ clevel \in StatusLevel
        /\ cwords = <<>> => (ctext = "" /\ clevel = "operational")
        /\ HasTier(cwords, "red") => clevel = "major_outage"
        /\ (~HasTier(cwords, "red") /\ HasTier(cwords, "amber")) => clevel = "degraded"
        /\ (~HasTier(cwords, "red") /\ ~HasTier(cwords, "amber")) => clevel = "operational"

\* A text with a red keyword after an amber one in upper case has been classified.
C10_Witness ==
    /\ clevel = "major_outage"
    /\ \E i, j \in DOMAIN cwords :
          /\ Vocab[cwords[i]].w = "INCIDENT"
          /\ Vocab[cwords[j]].w = "Major Outage"

\* What a reader of the feed expects of each generated item block: its entry in
\* latestItems, and the level and message of a feed that starts with it.
ExpectedItem(block) ==
    CASE block = ItemOutage ->
            StatusItem("Major Outage: Checkout API", "Mon, 04 Mar 2024 10:00:00 GMT",
                       "https://status.commercetools.com/incidents/1")
      [] block = ItemResolved ->
            StatusItem("Resolved: Import API delays", Undefined,
                       "https://status.commercetools.com/incidents/2")
      [] block = ItemUpper ->
            StatusItem("Scheduled maintenance window", "Sun, 03 Mar 2024", Undefined)
      [] block = ItemPlain -> StatusItem("Release notes 2024.3", Undefined, Undefined)

ExpectedLevel(block) ==
    CASE block = ItemOutage -> "major_outage"
      [] block = ItemResolved -> "operational"
      [] block = ItemUpper -> "degraded"
      [] block = ItemPlain -> "operational"

ExpectedMessage(block) ==
    CASE block = ItemOutage ->
            "Major Outage: Checkout API We are investigating elevated errors."
      [] block = ItemResolved -> "Resolved: Import API delays"
      [] block = ItemUpper -> "Scheduled maintenance window"
      [] block = ItemPlain -> "Release notes 2024.3"

\* The generated feed documents.
GeneratedFeeds == {Feed(l) : l \in ItemLists}

\* What each RSS provider returns, at each clock reading, for the feed that holds
\* the single block b.
AloneOutcome ==
    [i \in {j \in Sources : Kind(j) = "rss"} |->
        [b \in ItemKinds |->
            [t \in 0..MaxClock |->
                CallProvider(i, Response(200, TextBody(Feed(<<b>>))), t)]]]

\* The RSS provider has returned after reading a generated feed document.
RssReadFeed ==
    FetchDone /\ Kind(fsrc) = "rss" /\ GotText /\ fresp.body.text \in GeneratedFeeds

\* The RSS provider has returned after reading the feed that holds the blocks l.
ReadFeed(l) == RssReadFeed /\ fresp.body.text = Feed(l)

\* C11: for a successful feed response holding n <item> blocks, latestItems is the
\* entries of the first min(n, 3) blocks in document order (absent when n = 0), and
\* level, message and lastUpdated are those of the first block alone: a feed cut
\* down to its first block gives the same level and message. The blocks l of the
\* document are those that generate it (Feed(l) is the text read).
C11_FirstThreeFirstOnly ==
    RssReadFeed =>
            LET l == ItemBlocks(fresp.body.text)
                n == Len(l)
                v == fout.value
                alone == AloneOutcome[fsrc][l[1]][fnow].value
            IN
            /\ l \in ItemLists /\ Feed(l) = fresp.body.text
            /\ fout.state = "fulfilled"
            /\ v.latestItems.defined <=> n > 0
            /\ ItemCount(v) = Min(n, 3)
            /\ \A k \in 1..Min(n, 3) : v.latestItems.items[k] = ExpectedItem(l[k])
            /\ n = 0 => v.status = "operational" /\ v.message = "No recent items in feed"
            /\ n > 0 =>
                  /\ v.status = ExpectedLevel(l[1])
                  /\ v.message = ExpectedMessage(l[1])
                  /\ v.lastUpdated = ExpectedItem(l[1]).date
                  /\ v.status = alone.status
                  /\ v.message = alone.message

\* The RSS provider has returned operational and three items, the second an outage,
\* for a feed of four blocks that starts with a resolved incident.
C11_Witness ==
    /\ ReadFeed(<<ItemResolved, ItemOutage, ItemUpper, ItemOutage>>)
    /\ fout.value.status = "operational"
    /\ ItemCount(fout.value) = 3
    /\ fout.value.latestItems.items[2].title = "Major Outage: Checkout API"

RECURSIVE SumTo(_, _)
SumTo(f, n) == IF n = 0 THEN 0 ELSE f[n] + SumTo(f, n - 1)

\* The HTTP GETs issued in the pass so far.
TotalRequests == SumTo(requests, NumSources)

\* The request of provider i failed: no response, or a non-success status.
FailedInPass(i) == resp[i] \in FaultResponses

\* C12: within one pass every configured source issues exactly one HTTP GET. Each
\* provider has issued one GET once it is called and none before; the step in which
\* a request fails issues no request and settles the provider's promise with its
\* failure summary; so once all providers are called, and when the pass returns,
\* the GETs number 13 whatever the outcomes.
C12_OneRequestEach ==
    /\ [](\A i \in Sources : requests[i] = IF i <= started THEN 1 ELSE 0)
    /\ [](pc \in {"awaiting", "done"} => TotalRequests = 13)
    /\ [][\A i \in Sources :
            (resp[i] = NoResp /\ resp'[i] \in FaultResponses) =>
                /\ requests' = requests
                /\ results'[i].state = "fulfilled"
                /\ results'[i].value.status \in {"degraded", "major_outage"}
                /\ results'[i].value.message \in
                      {FailureMessage(Kind(i)), "Endpoint error (HTTP 503)"}]_vars

\* getAllStatuses has returned after a pass in which one request failed in transport
\* and another got a 503, with 13 GETs issued.
C12_Witness ==
    /\ pc = "done"
    /\ TotalRequests = 13
    /\ \E i, j \in Sources :
          /\ resp[i] = NetFail
          /\ resp[j] = Response(503, NoBody)
          /\ results[i].value.status = "degraded"

====
